---- MODULE Spec2Model ----
(***************************************************************************)
(* State-machine model of src/src/component/draggable-mask.tsx: the React  *)
(* component DraggableMask.                                                *)
(*                                                                         *)
(* Lengths are kept in half CSS pixels (Px(n) is n pixels), so that the    *)
(* fractional rectangles getBoundingClientRect returns for vw/vh sizes,    *)
(* Math.round and the integer conversion of canvas.width are all exact.    *)
(*                                                                         *)
(* The state maskStates has two copies: the value last handed to           *)
(* setMaskStates (maskStates) and the value of the last render, which is   *)
(* what every handler, callback and effect closes over (rMaskStates).      *)
(* Updates made in mousemove or in the native 'playing' listener are       *)
(* rendered in a later task (action Render). draggingState is set only in  *)
(* mousedown and mouseup, which are discrete events: React renders their   *)
(* updates before the event returns, so one copy of it is enough.          *)
(* A callback requested with requestAnimationFrame(draw) keeps the         *)
(* maskStates of the render whose draw requested it.                       *)
(*                                                                         *)
(* Four specifications share the variables. Spec is the page with every    *)
(* canvas giving a 2D context. SpecContextLost is the page, no pointer over*)
(* it, where a canvas may stop giving a context (lost). SpecHud is the page*)
(* before any 'playing' event with the pointer moving over it: the hover   *)
(* flag, the document mousemove listener and the HUD element (hud).        *)
(* SpecGeom is drawClipped alone, on arguments drawn from bounded sets     *)
(* (geom).                                                                 *)
(*                                                                         *)
(* drawClipped is computed in exact rational arithmetic; the code computes *)
(* in IEEE-754 doubles, which agree with it up to rounding.                *)
(***************************************************************************)
EXTENDS Integers, Sequences, FiniteSets, TLC

\* ------------------------------------------------------------------ bounds
NumMasks == 2
MaxPlaying == 2
MaxFrameId == 3
MaxDim == 3

\* --------------------------------------------------------------- constants
Null == -1
DefaultCanvasWidth == 300
DefaultCanvasHeight == 150
HudOffset == 2

Masks == 0 .. (NumMasks - 1)

Px(n) == 2 * n

\* window.innerWidth / window.innerHeight, in CSS pixels
Window == [innerWidth |-> 50, innerHeight |-> 50]
\* video.videoWidth / video.videoHeight, in video pixels
Video == [videoWidth |-> 16, videoHeight |-> 9]

\* clientX / clientY of the pointer events the environment delivers (CSS pixels)
PointerPositions ==
  { [clientX |-> 0,  clientY |-> 0],
    [clientX |-> 5,  clientY |-> 8],
    [clientX |-> 20, clientY |-> 16],
    [clientX |-> 10, clientY |-> 40] }

\* ------------------------------------------------------ rational arithmetic
RECURSIVE GCD(_, _)
GCD(a, b) == IF b = 0 THEN a ELSE GCD(b, a % b)

Abs(n) == IF n < 0 THEN -n ELSE n

Rat(n, d) ==
  LET s == IF d < 0 THEN -1 ELSE 1
      g == GCD(Abs(n), Abs(d))
  IN  [n |-> (s * n) \div g, d |-> (s * d) \div g]

RAdd(a, b) == Rat(a.n * b.d + b.n * a.d, a.d * b.d)
RSub(a, b) == Rat(a.n * b.d - b.n * a.d, a.d * b.d)
RMul(a, b) == Rat(a.n * b.n, a.d * b.d)
RDiv(a, b) == Rat(a.n * b.d, a.d * b.n)
RGt(a, b) == a.n * b.d > b.n * a.d
RInt(n) == Rat(n, 1)
\* a length of the model (half pixels) as a number of CSS pixels
RPx(u) == Rat(u, 2)

\* Math.round of a length: the nearest integer number of pixels, halves up
MathRound(u) == (u + 1) \div 2

\* the unsigned long conversion of the canvas.width / canvas.height setters
ToUnsignedLong(u) == u \div 2

\* ------------------------------------------------------------------ layout
Vw(n) == (n * Px(Window.innerWidth)) \div 100
Vh(n) == (n * Px(Window.innerHeight)) \div 100

\* the CSS boxes of the six mask buttons (top/bottom/left/right/h/w classes)
LayoutRect(i) ==
  CASE i = 0 -> [x |-> Vw(8), y |-> Vh(15), w |-> Vw(35), h |-> Vh(20)]
    [] i = 1 -> [x |-> Vw(15), y |-> Vh(100) - Vh(3) - Vh(20), w |-> Vw(35), h |-> Vh(20)]
    [] i = 2 -> [x |-> Vw(100) - Vw(5) - Vw(35), y |-> Vh(15), w |-> Vw(35), h |-> Vh(20)]
    [] i = 3 -> [x |-> Vw(5), y |-> Vh(100) - Vh(23) - Vh(10), w |-> Vw(20), h |-> Vh(10)]
    [] i = 4 -> [x |-> Vw(6), y |-> Vh(28), w |-> Vw(22), h |-> Vh(12)]
    [] OTHER -> [x |-> Vw(100) - Vw(10) - Vw(60), y |-> Vh(20), w |-> Vw(60), h |-> Vh(35)]

VARIABLES
  mounted,            \* the component is mounted (refs are non-null)
  maskStates,         \* useState maskStates: the value last set
  rMaskStates,        \* maskStates of the last render (seen by all closures)
  draggingState,      \* useState draggingState
  transform,          \* per mask: the translate3d of style.transform, or <<>>
  cursor,             \* per mask: the cursor shown
  canvas,             \* per mask: [width, height, image]
  coords,             \* per mask: the text of the coordinate label
  frames,             \* requested animation frames that have not fired
  animationFrameRef,  \* animationFrameRef.current
  nextFrameId,        \* the id the next requestAnimationFrame returns
  playingCount,       \* 'playing' events delivered so far
  buttonDown,         \* the pointer button is held
  lastEvent,          \* the event or callback handled last
  prev,               \* the React state and the transforms it found
  lost,               \* the masks whose canvas.getContext("2d") returns null
  hud,                \* the hover flag, the document listener and the HUD element
  geom                \* a call of drawClipped: its arguments and its drawImage

\* the state of the masks, the canvases and the render loop
pageVars == << mounted, maskStates, rMaskStates, draggingState, transform,
               cursor, canvas, coords, frames, animationFrameRef, nextFrameId,
               playingCount, buttonDown, lastEvent, prev >>

vars == << mounted, maskStates, rMaskStates, draggingState, transform, cursor,
           canvas, coords, frames, animationFrameRef, nextFrameId,
           playingCount, buttonDown, lastEvent, prev, lost, hud, geom >>

NoStates == [i \in {} |-> 0]
IdleDrag == [index |-> Null, offsetX |-> 0, offsetY |-> 0]

Event(type, target, p) ==
  [type |-> type, target |-> target, clientX |-> p.clientX, clientY |-> p.clientY]

NoPointer == [clientX |-> 0, clientY |-> 0]

\* useState(false) of isHovering, the listener of the first render, and the
\* empty HUD element at its CSS position
IdleHud ==
  [isHovering |-> FALSE, listener |-> FALSE, text |-> << >>,
   transform |-> << >>, over |-> Null, queue |-> << >>,
   event |-> "mount", found |-> FALSE]

\* no call of drawClipped is being looked at
NoCall == << >>

\* the state an event or callback finds
Before ==
  [maskStates |-> maskStates, rMaskStates |-> rMaskStates,
   draggingState |-> draggingState, transform |-> transform]

InitPage ==
  /\ mounted = TRUE
  /\ maskStates = NoStates
  /\ rMaskStates = NoStates
  /\ draggingState = IdleDrag
  /\ transform = [i \in Masks |-> << >>]
  /\ cursor = [i \in Masks |-> "grab"]
  /\ canvas = [i \in Masks |->
                 [width |-> DefaultCanvasWidth, height |-> DefaultCanvasHeight,
                  image |-> << >>]]
  /\ coords = [i \in Masks |-> << >>]
  /\ frames = {}
  /\ animationFrameRef = 0
  /\ nextFrameId = 1
  /\ playingCount = 0
  /\ buttonDown = FALSE
  /\ lastEvent = Event("mount", Null, NoPointer)
  /\ prev = [maskStates |-> NoStates, rMaskStates |-> NoStates,
             draggingState |-> IdleDrag,
             transform |-> [i \in Masks |-> << >>]]

\* the page after the first render, every canvas with a 2D context
Init ==
  /\ InitPage
  /\ lost = {}
  /\ hud = IdleHud
  /\ geom = NoCall

\* ------------------------------------------------------------ drawClipped
\* The arguments drawClipped passes to ctx.drawImage for the mask rectangle
\* rect, with the viewport win: << sx, sy, sw, sh, dx, dy, dw, dh >>.
\* the fit with the comparison of the aspects turned round: the video is
\* fitted inside the viewport
coverFitContain(video, win) ==
  LET videoAspect == RDiv(RInt(video.videoWidth), RInt(video.videoHeight))
      windowAspect == RDiv(RInt(win.innerWidth), RInt(win.innerHeight))
      wide == ~RGt(videoAspect, windowAspect)
      dh == IF wide THEN RInt(win.innerHeight)
                    ELSE RDiv(RInt(win.innerWidth), videoAspect)
      dw == IF wide THEN RMul(dh, videoAspect) ELSE RInt(win.innerWidth)
  IN  [dw |-> dw, dh |-> dh,
       dx |-> IF wide THEN RDiv(RSub(RInt(win.innerWidth), dw), RInt(2)) ELSE RInt(0),
       dy |-> IF wide THEN RInt(0) ELSE RDiv(RSub(RInt(win.innerHeight), dh), RInt(2)),
       scaleX |-> RDiv(RInt(video.videoWidth), dw),
       scaleY |-> RDiv(RInt(video.videoHeight), dh)]

\* The fit drawClipped computes for the video in the viewport win: the drawn
\* size dw x dh, its offset dx, dy and the scale back to video pixels.
coverFit(video, win) ==
  LET videoAspect == RDiv(RInt(video.videoWidth), RInt(video.videoHeight))
      windowAspect == RDiv(RInt(win.innerWidth), RInt(win.innerHeight))
      wide == RGt(videoAspect, windowAspect)
      dh == IF wide THEN RInt(win.innerHeight)
                    ELSE RDiv(RInt(win.innerWidth), videoAspect)
      dw == IF wide THEN RMul(dh, videoAspect) ELSE RInt(win.innerWidth)
  IN  [dw |-> dw, dh |-> dh,
       dx |-> IF wide THEN RDiv(RSub(RInt(win.innerWidth), dw), RInt(2)) ELSE RInt(0),
       dy |-> IF wide THEN RInt(0) ELSE RDiv(RSub(RInt(win.innerHeight), dh), RInt(2)),
       scaleX |-> RDiv(RInt(video.videoWidth), dw),
       scaleY |-> RDiv(RInt(video.videoHeight), dh)]

\* drawClipped with the offset added to the mask position instead of subtracted
drawClippedInOffsetAdded(video, win, rect) ==
  LET fit == coverFit(video, win)
  IN  << RMul(RAdd(RPx(rect.x), fit.dx), fit.scaleX),
         RMul(RAdd(RPx(rect.y), fit.dy), fit.scaleY),
         RMul(RPx(rect.w), fit.scaleX),
         RMul(RPx(rect.h), fit.scaleY),
         RInt(0), RInt(0), RPx(rect.w), RPx(rect.h) >>

drawClippedIn(video, win, rect) ==
  LET fit == coverFit(video, win)
  IN  << RMul(RSub(RPx(rect.x), fit.dx), fit.scaleX),
         RMul(RSub(RPx(rect.y), fit.dy), fit.scaleY),
         RMul(RPx(rect.w), fit.scaleX),
         RMul(RPx(rect.h), fit.scaleY),
         RInt(0), RInt(0), RPx(rect.w), RPx(rect.h) >>

drawClipped(video, rect) == drawClippedIn(video, Window, rect)

\* ------------------------------------------------------------- the page
\* mask.getBoundingClientRect(): the CSS box until initMasks has re-anchored
\* the element at left 0 / top 0, the translate3d offset afterwards
BoundingClientRect(i) ==
  IF transform[i] = << >>
    THEN LayoutRect(i)
    ELSE [x |-> transform[i][1], y |-> transform[i][2],
          w |-> LayoutRect(i).w, h |-> LayoutRect(i).h]

Contains(r, p) ==
  /\ r.x <= Px(p.clientX) /\ Px(p.clientX) < r.x + r.w
  /\ r.y <= Px(p.clientY) /\ Px(p.clientY) < r.y + r.h

SetMax(S) == CHOOSE m \in S : \A n \in S : n <= m

\* the mask button an event at p is dispatched to: the buttons are siblings
\* painted in document order, so the last one under the pointer receives it
Target(p) ==
  LET hit == { i \in Masks : Contains(BoundingClientRect(i), p) }
  IN  IF hit = {} THEN Null ELSE SetMax(hit)

\* ---------------------------------------------------------- initialization
\* initMasks recording the CSS box of the class instead of measuring the element
initMasksStatesFromLayout == [i \in Masks |-> LayoutRect(i)]

\* initMasks: newStates, one rectangle per mask element
initMasksStates == [i \in Masks |-> BoundingClientRect(i)]

\* initMasks: the style.transform it gives every mask element
initMasksTransform ==
  [i \in Masks |-> << BoundingClientRect(i).x, BoundingClientRect(i).y >>]

\* initCanvases, closed over the maskStates ms: setting width and height
\* also resets the bitmap
initCanvases(cv, ms) ==
  [i \in Masks |->
     IF i \in DOMAIN ms
       THEN [width |-> ToUnsignedLong(ms[i].w),
             height |-> ToUnsignedLong(ms[i].h),
             image |-> << >>]
       ELSE cv[i]]

\* -------------------------------------------------------------------- draw
\* updateCoords(index), closed over the maskStates ms
updateCoords(co, ms, index) ==
  IF index \in DOMAIN ms
    THEN [co EXCEPT ![index] = << MathRound(ms[index].x), MathRound(ms[index].y) >>]
    ELSE co

\* the forEach of draw ended by the first canvas without a 2D context
drawCanvasesUntilLost(cv, ms) ==
  [i \in Masks |->
     IF i \in DOMAIN ms /\ \A j \in lost : i < j
       THEN [cv[i] EXCEPT !.image = drawClipped(Video, ms[i])]
       ELSE cv[i]]

\* the forEach of draw over the canvases: clearRect, then drawClipped
drawCanvases(cv, ms) ==
  [i \in Masks |->
     IF i \in DOMAIN ms /\ i \notin lost
       THEN [cv[i] EXCEPT !.image = drawClipped(Video, ms[i])]
       ELSE cv[i]]

\* the forEach of draw over the labels
drawCoords(co, ms) ==
  [i \in Masks |-> IF i \in lost THEN co[i] ELSE updateCoords(co, ms, i)[i]]

\* draw, closed over the maskStates ms, on the canvases cv with the frames
\* pending still requested; the frame it requests runs the same closure
draw(ms, cv, pending) ==
  IF ~mounted
    THEN /\ canvas' = cv
         /\ frames' = pending
         /\ UNCHANGED << coords, animationFrameRef, nextFrameId >>
    ELSE /\ canvas' = drawCanvases(cv, ms)
         /\ coords' = drawCoords(coords, ms)
         /\ frames' = pending \cup { [id |-> nextFrameId, ms |-> ms] }
         /\ animationFrameRef' = nextFrameId
         /\ nextFrameId' = nextFrameId + 1

\* the listener of the video's 'playing' event, registered by the render that
\* produced rMaskStates
handlePlaying ==
  /\ maskStates' = initMasksStates
  /\ transform' = initMasksTransform
  /\ draw(rMaskStates, initCanvases(canvas, rMaskStates), frames)

\* ---------------------------------------------------------- drag handlers
\* handleMouseDown with the offset left at zero: the mask would jump to the pointer
handleMouseDownNoOffset(index, p) ==
  IF index \notin DOMAIN rMaskStates
    THEN UNCHANGED << draggingState, cursor >>
    ELSE /\ draggingState' = [index |-> index, offsetX |-> 0, offsetY |-> 0]
         /\ cursor' = [cursor EXCEPT ![index] = "grabbing"]

\* handleMouseDown without its guard on maskStates[index]
handleMouseDownUnguarded(index, p) ==
  /\ draggingState' =
       [index |-> index,
        offsetX |-> Px(p.clientX) -
                      (IF index \in DOMAIN rMaskStates THEN rMaskStates[index].x ELSE 0),
        offsetY |-> Px(p.clientY) -
                      (IF index \in DOMAIN rMaskStates THEN rMaskStates[index].y ELSE 0)]
  /\ cursor' = [cursor EXCEPT ![index] = "grabbing"]

handleMouseDown(index, p) ==
  IF index \notin DOMAIN rMaskStates
    THEN UNCHANGED << draggingState, cursor >>
    ELSE /\ draggingState' =
              [index |-> index,
               offsetX |-> Px(p.clientX) - rMaskStates[index].x,
               offsetY |-> Px(p.clientY) - rMaskStates[index].y]
         /\ cursor' = [cursor EXCEPT ![index] = "grabbing"]

\* newStates built from an empty array instead of a copy of maskStates
moveStatesDropOthers(index, p) ==
  [j \in {index} |->
     [rMaskStates[index] EXCEPT !.x = Px(p.clientX) - draggingState.offsetX,
                                !.y = Px(p.clientY) - draggingState.offsetY]]

\* newStates[index] built without the spread of the old entry: w and h are lost
moveStatesNoSpread(index, p) ==
  [j \in (DOMAIN rMaskStates) \cup {index} |->
     IF j # index THEN rMaskStates[j]
     ELSE [x |-> Px(p.clientX) - draggingState.offsetX,
           y |-> Px(p.clientY) - draggingState.offsetY]]

\* newStates of handleMouseMove: a copy of the rendered maskStates with the
\* position of entry index replaced
moveStates(index, p) ==
  LET nx == Px(p.clientX) - draggingState.offsetX
      ny == Px(p.clientY) - draggingState.offsetY
  IN  [j \in (DOMAIN rMaskStates) \cup {index} |->
         IF j # index THEN rMaskStates[j]
         ELSE IF index \in DOMAIN rMaskStates
           THEN [rMaskStates[index] EXCEPT !.x = nx, !.y = ny]
           ELSE [x |-> nx, y |-> ny]]

\* handleMouseMove without its guard on the active drag index
handleMouseMoveUnguarded(index, p) ==
  /\ maskStates' = moveStates(index, p)
  /\ transform' = [transform EXCEPT
       ![index] = << moveStates(index, p)[index].x,
                     moveStates(index, p)[index].y >>]

\* handleMouseMove writing the pointer position, not the new MaskState
\* position, into style.transform
handleMouseMoveTransformAtPointer(index, p) ==
  IF draggingState.index # index
    THEN UNCHANGED << maskStates, transform >>
    ELSE /\ maskStates' = moveStates(index, p)
         /\ transform' = [transform EXCEPT
              ![index] = << Px(p.clientX), Px(p.clientY) >>]

handleMouseMove(index, p) ==
  IF draggingState.index # index
    THEN UNCHANGED << maskStates, transform >>
    ELSE /\ maskStates' = moveStates(index, p)
         /\ transform' = [transform EXCEPT
              ![index] = << moveStates(index, p)[index].x,
                            moveStates(index, p)[index].y >>]

handleMouseUp ==
  IF draggingState.index # Null
    THEN /\ cursor' = [cursor EXCEPT ![draggingState.index] = "grab"]
         /\ draggingState' = IdleDrag
    ELSE UNCHANGED << draggingState, cursor >>

\* ----------------------------------------------------------------- actions
\* the video fires 'playing'
Playing ==
  /\ mounted
  /\ playingCount < MaxPlaying
  /\ nextFrameId <= MaxFrameId
  /\ handlePlaying
  /\ playingCount' = playingCount + 1
  /\ lastEvent' = Event("playing", Null, NoPointer)
  /\ prev' = Before
  /\ UNCHANGED << mounted, rMaskStates, draggingState, cursor, buttonDown >>
  /\ UNCHANGED << lost, hud, geom >>

\* React renders the pending maskStates; the effects re-register the listeners
Render ==
  /\ mounted
  /\ rMaskStates # maskStates
  /\ rMaskStates' = maskStates
  /\ UNCHANGED << mounted, maskStates, draggingState, transform, cursor, canvas,
                  coords, frames, animationFrameRef, nextFrameId, playingCount,
                  buttonDown, lastEvent, prev >>
  /\ UNCHANGED << lost, hud, geom >>

\* the browser runs a requested animation frame
Frame(f) ==
  /\ f \in frames
  /\ mounted => nextFrameId <= MaxFrameId
  /\ draw(f.ms, canvas, frames \ {f})
  /\ lastEvent' = Event("frame", Null, NoPointer)
  /\ prev' = Before
  /\ UNCHANGED << mounted, maskStates, rMaskStates, draggingState, transform,
                  cursor, playingCount, buttonDown >>
  /\ UNCHANGED << lost, hud, geom >>

\* the pointer button goes down at p. A button event arrives at least one task
\* after the move or 'playing' event before it, so React has rendered their
\* updates by then (rMaskStates = maskStates); mousedown is discrete, so its
\* own update is rendered before the event returns
MouseDown(p) ==
  /\ mounted
  /\ ~buttonDown
  /\ rMaskStates = maskStates
  /\ IF Target(p) # Null
       THEN handleMouseDown(Target(p), p)
       ELSE UNCHANGED << draggingState, cursor >>
  /\ buttonDown' = TRUE
  /\ lastEvent' = Event("mousedown", Target(p), p)
  /\ prev' = Before
  /\ UNCHANGED << mounted, maskStates, rMaskStates, transform, canvas, coords,
                  frames, animationFrameRef, nextFrameId, playingCount >>
  /\ UNCHANGED << lost, hud, geom >>

\* the pointer moves to p
MouseMove(p) ==
  /\ mounted
  /\ IF Target(p) # Null
       THEN handleMouseMove(Target(p), p)
       ELSE UNCHANGED << maskStates, transform >>
  /\ lastEvent' = Event("mousemove", Target(p), p)
  /\ prev' = Before
  /\ UNCHANGED << mounted, rMaskStates, draggingState, cursor, canvas, coords,
                  frames, animationFrameRef, nextFrameId, playingCount,
                  buttonDown >>
  /\ UNCHANGED << lost, hud, geom >>

\* the pointer button is released at p, wherever the pointer is; as for
\* mousedown, no render is pending and its own update is rendered at once
MouseUp(p) ==
  /\ mounted
  /\ buttonDown
  /\ rMaskStates = maskStates
  /\ IF Target(p) # Null
       THEN handleMouseUp
       ELSE UNCHANGED << draggingState, cursor >>
  /\ buttonDown' = FALSE
  /\ lastEvent' = Event("mouseup", Target(p), p)
  /\ prev' = Before
  /\ UNCHANGED << mounted, maskStates, rMaskStates, transform, canvas, coords,
                  frames, animationFrameRef, nextFrameId, playingCount >>
  /\ UNCHANGED << lost, hud, geom >>

\* the component unmounts: React clears the refs and runs the cleanup of the
\* "Cleanup animation frame" effect
Teardown ==
  /\ mounted
  /\ mounted' = FALSE
  /\ frames' = IF animationFrameRef # 0
                 THEN { f \in frames : f.id # animationFrameRef }
                 ELSE frames
  /\ lastEvent' = Event("unmount", Null, NoPointer)
  /\ prev' = Before
  /\ UNCHANGED << maskStates, rMaskStates, draggingState, transform, cursor,
                  canvas, coords, animationFrameRef, nextFrameId, playingCount,
                  buttonDown >>
  /\ UNCHANGED << lost, hud, geom >>

Next ==
  \/ Playing
  \/ Render
  \/ \E f \in frames : Frame(f)
  \/ \E p \in PointerPositions : MouseDown(p)
  \/ \E p \in PointerPositions : MouseMove(p)
  \/ \E p \in PointerPositions : MouseUp(p)
  \/ Teardown

Spec == Init /\ [][Next]_vars

\* ------------------------------------------------------ drawClipped alone
\* the sizes, in pixels, and the mask coordinates, in half pixels, tried
Sizes == 1 .. MaxDim
Offsets == 0 .. MaxDim

\* the arguments of a call of drawClipped: a video, a viewport and a mask
Call(W, H, vw, vh, x, y, w, h) ==
  [video |-> [videoWidth |-> W, videoHeight |-> H],
   win |-> [innerWidth |-> vw, innerHeight |-> vh],
   rect |-> [x |-> x, y |-> y, w |-> w, h |-> h],
   fit |-> << >>, drawImage |-> << >>]

\* a 1920x1080 video in a 1280x720 viewport, the mask (100,100,200,100)
FullHDCall == Call(1920, 1080, 1280, 720, Px(100), Px(100), Px(200), Px(100))

Calls ==
  { Call(W, H, vw, vh, x, y, w, h) :
      W \in Sizes, H \in Sizes, vw \in Sizes, vh \in Sizes,
      x \in Offsets, y \in Offsets, w \in Sizes, h \in Sizes }
  \cup { FullHDCall }

InitGeom ==
  /\ InitPage
  /\ lost = {}
  /\ hud = IdleHud
  /\ geom \in Calls

\* drawClipped runs on its arguments
CallDrawClipped ==
  /\ geom.drawImage = << >>
  /\ geom' = [geom EXCEPT !.fit = coverFit(geom.video, geom.win),
                          !.drawImage = drawClippedIn(geom.video, geom.win, geom.rect)]
  /\ UNCHANGED << pageVars, lost, hud >>

NextGeom == CallDrawClipped

SpecGeom == InitGeom /\ [][NextGeom]_vars

\* ------------------------------------------------------------- the HUD
\* The HUD on the page before any 'playing' event, the button up. hud.over is
\* the mask under the pointer, hud.queue the events the browser still has to
\* dispatch in the task of the current pointer movement, hud.listener the
\* isHovering closed over by the registered document listener, hud.event the
\* event handled last and hud.found the hover flag it found.
HudPointerPositions ==
  PointerPositions \cup { [clientX |-> 22, clientY |-> 18],
                          [clientX |-> 40, clientY |-> 45] }

HudEvent(type, p) == [type |-> type, clientX |-> p.clientX, clientY |-> p.clientY]

\* the pointer moves to p: the browser hit-tests and dispatches, in one task,
\* mouseleave to the mask left, mouseenter to the mask entered, then mousemove
HudPointerMove(p) ==
  /\ hud.queue = << >>
  /\ hud' = [hud EXCEPT
       !.over = Target(p),
       !.queue =
         (IF hud.over # Null /\ hud.over # Target(p)
            THEN << HudEvent("mouseleave", p) >> ELSE << >>)
         \o (IF Target(p) # Null /\ hud.over # Target(p)
               THEN << HudEvent("mouseenter", p) >> ELSE << >>)
         \o << HudEvent("mousemove", p) >>]
  /\ UNCHANGED << pageVars, lost, geom >>

\* handleMouseEnter
handleMouseEnter(h) ==
  [h EXCEPT !.isHovering = TRUE, !.text = << "GRAB" >>]

\* handleMouseLeave
handleMouseLeave(h) ==
  [h EXCEPT !.isHovering = FALSE, !.text = << "HOVER" >>]

\* handleMouseMove of the "Global mouse tracking" effect, closed over the
\* isHovering of the render that registered it
documentMouseMove(h, e) ==
  [h EXCEPT
     !.text = IF ~h.listener
                THEN << "X: ", e.clientX, "px Y: ", e.clientY, "px" >>
                ELSE @,
     !.transform = << e.clientX + HudOffset, e.clientY + HudOffset, 0 >>]

\* the browser dispatches the next event of the task
HudDispatch ==
  /\ hud.queue # << >>
  /\ LET e == Head(hud.queue)
         handled == CASE e.type = "mouseleave" -> handleMouseLeave(hud)
                      [] e.type = "mouseenter" -> handleMouseEnter(hud)
                      [] OTHER -> documentMouseMove(hud, e)
     IN  hud' = [handled EXCEPT !.queue = Tail(hud.queue),
                                !.event = e.type,
                                !.found = hud.isHovering]
  /\ UNCHANGED << pageVars, lost, geom >>

\* React renders the pending isHovering in a later task; the effect removes
\* the document listener and registers the one of this render
HudRender ==
  /\ hud.queue = << >>
  /\ hud.listener # hud.isHovering
  /\ hud' = [hud EXCEPT !.listener = hud.isHovering]
  /\ UNCHANGED << pageVars, lost, geom >>

NextHud ==
  \/ \E p \in HudPointerPositions : HudPointerMove(p)
  \/ HudDispatch
  \/ HudRender

SpecHud == Init /\ [][NextHud]_vars

\* ------------------------------------------------- canvases without context
\* from now on getContext("2d") of the canvas of mask i returns null
ContextLost(i) ==
  /\ mounted
  /\ i \notin lost
  /\ lost' = lost \cup {i}
  /\ UNCHANGED << pageVars, hud, geom >>

NextContextLost ==
  \/ Playing
  \/ Render
  \/ \E f \in frames : Frame(f)
  \/ Teardown
  \/ \E i \in Masks : ContextLost(i)

\* the page, with no pointer over it, where a canvas may fail to give a 2D
\* context
SpecContextLost == Init /\ [][NextContextLost]_vars

\* ------------------------------------------------------------------ claims
\* the last event was a pointer-move on the mask that was being dragged
MoveApplied ==
  /\ lastEvent.type = "mousemove"
  /\ prev.draggingState.index # Null
  /\ lastEvent.target = prev.draggingState.index

\* C1: a pointer-move applied to the mask that is being dragged leaves the
\* MaskState (x, y, w, h) of every other mask as it was.
C1_MoveChangesOnlyDraggedMask ==
  MoveApplied =>
    \A j \in (DOMAIN prev.maskStates) \ {prev.draggingState.index} :
      j \in DOMAIN maskStates /\ maskStates[j] = prev.maskStates[j]

\* a move has changed the MaskState of the dragged mask while every other
\* mask has a MaskState too
C1_Witness ==
  /\ MoveApplied
  /\ DOMAIN prev.maskStates = Masks
  /\ maskStates[draggingState.index] # prev.maskStates[draggingState.index]

\* C2: pointer-down at p on an initialized mask records the offset
\* p - MaskState.(x, y); no pointer-move changes the recorded offset; and a
\* pointer-move at q applied to the dragged mask sets its MaskState.(x, y)
\* to q - offset.
C2_OffsetCapturedHeldApplied ==
  /\ (/\ lastEvent.type = "mousedown"
      /\ lastEvent.target # Null
      /\ lastEvent.target \in DOMAIN prev.maskStates)
     => draggingState =
          [index |-> lastEvent.target,
           offsetX |-> Px(lastEvent.clientX) - prev.maskStates[lastEvent.target].x,
           offsetY |-> Px(lastEvent.clientY) - prev.maskStates[lastEvent.target].y]
  /\ lastEvent.type = "mousemove" => draggingState = prev.draggingState
  /\ MoveApplied
     => /\ draggingState.index \in DOMAIN maskStates
        /\ maskStates[draggingState.index].x =
             Px(lastEvent.clientX) - prev.draggingState.offsetX
        /\ maskStates[draggingState.index].y =
             Px(lastEvent.clientY) - prev.draggingState.offsetY

\* a move with a non-zero recorded offset has put the dragged mask at the
\* pointer position minus the offset, away from where it was
C2_Witness ==
  /\ MoveApplied
  /\ draggingState.offsetX # 0 /\ draggingState.offsetY # 0
  /\ maskStates[draggingState.index].x =
       Px(lastEvent.clientX) - draggingState.offsetX
  /\ maskStates[draggingState.index].y =
       Px(lastEvent.clientY) - draggingState.offsetY
  /\ maskStates[draggingState.index].y # prev.maskStates[draggingState.index].y

\* C3: releasing the pointer button anywhere while mask i is being dragged
\* sets DraggingState to 'none' and restores the cursor of mask i to 'grab'.
C3_ReleaseAnywhereEndsDrag ==
  (lastEvent.type = "mouseup" /\ prev.draggingState.index # Null)
  => /\ draggingState.index = Null
     /\ cursor[prev.draggingState.index] = "grab"

\* C4: once the button has been released, and until the next pointer-down,
\* every pointer-move finds DraggingState.index at 'none' and leaves every
\* MaskState unchanged.
C4_NoMoveAfterRelease ==
  (~buttonDown /\ lastEvent.type = "mousemove")
  => /\ prev.draggingState.index = Null
     /\ maskStates = prev.maskStates

\* C5: a pointer-move delivered to mask j changes a MaskState or a mask
\* transform only if DraggingState.index = j.
C5_MoveOnlyForActiveIndex ==
  (lastEvent.type = "mousemove" /\ lastEvent.target # prev.draggingState.index)
  => maskStates = prev.maskStates /\ transform = prev.transform

\* a move was delivered to one mask while another was being dragged
C5_Witness ==
  /\ lastEvent.type = "mousemove"
  /\ lastEvent.target # Null
  /\ prev.draggingState.index # Null
  /\ lastEvent.target # prev.draggingState.index

\* C6: for every mask that has a MaskState, the translate offset of its
\* element equals (MaskState.x, MaskState.y).
C6_TransformMatchesMaskState ==
  \A i \in DOMAIN maskStates :
    transform[i] = << maskStates[i].x, maskStates[i].y >>

\* a drag has moved a mask, and a further 'playing' event has initialized the
\* masks again since
C6_Witness ==
  /\ lastEvent.type = "playing"
  /\ playingCount > 1
  /\ \E i \in DOMAIN maskStates : maskStates[i].x # LayoutRect(i).x

\* C7: a frame callback that runs while the component is mounted and no
\* render is pending draws, for every mask with a MaskState, the crop of the
\* current MaskState and writes the rounded current (x, y) to its label.
C7_FrameDrawsCurrentMaskState ==
  (lastEvent.type = "frame" /\ mounted /\ prev.rMaskStates = prev.maskStates)
  => \A i \in DOMAIN prev.maskStates :
       /\ canvas[i].image = drawClipped(Video, prev.maskStates[i])
       /\ coords[i] = << MathRound(prev.maskStates[i].x),
                         MathRound(prev.maskStates[i].y) >>

\* C8: after teardown no animation frame is left requested and no frame
\* callback runs.
C8_NoFrameAfterTeardown ==
  ~mounted => (frames = {} /\ lastEvent.type # "frame")

\* C9: when the handling of a 'playing' event completes, the pixel buffer of
\* every mask's canvas has the width and height of the MaskState that
\* initialization recorded for the mask.
C9_CanvasSizedByPlaying ==
  lastEvent.type = "playing"
  => \A i \in Masks :
       /\ i \in DOMAIN maskStates
       /\ Px(canvas[i].width) = maskStates[i].w
       /\ Px(canvas[i].height) = maskStates[i].h

\* C10: until the first 'playing' event has been handled, no mask has a
\* MaskState, no canvas has been drawn to, no frame is requested, and no
\* pointer event takes DraggingState off 'none' or changes a mask's geometry.
C10_NothingBeforePlaying ==
  playingCount = 0
  => /\ maskStates = NoStates
     /\ rMaskStates = NoStates
     /\ frames = {}
     /\ animationFrameRef = 0
     /\ draggingState = IdleDrag
     /\ \A i \in Masks :
          /\ canvas[i].image = << >>
          /\ coords[i] = << >>
          /\ transform[i] = << >>
          /\ cursor[i] = "grab"

\* with the button held, a pointer-down or pointer-move reached a mask
\* before the video has played at all
C10_Witness ==
  /\ playingCount = 0
  /\ buttonDown
  /\ lastEvent.type \in {"mousedown", "mousemove"}
  /\ lastEvent.target # Null

\* C13: a further 'playing' event, with the layout unchanged, leaves every
\* MaskState and every element transform as they were before it, also after
\* masks have been dragged.
C13_InitIdempotent ==
  (lastEvent.type = "playing" /\ prev.maskStates # NoStates)
  => maskStates = prev.maskStates /\ transform = prev.transform

\* initialization has run again in the middle of a drag that had moved a mask
C13_Witness ==
  /\ lastEvent.type = "playing"
  /\ prev.maskStates # NoStates
  /\ draggingState.index # Null
  /\ maskStates[draggingState.index].y # LayoutRect(draggingState.index).y

\* C15: every pointer-down on a mask finds DraggingState at 'none' (the
\* pointer delivers down and up alternately).
C15_DownFindsNoDrag ==
  (lastEvent.type = "mousedown" /\ lastEvent.target # Null)
  => prev.draggingState.index = Null

\* C16: no pointer-down, pointer-move or pointer-up changes the w or h of a
\* MaskState; a drag changes only x and y.
C16_MasksFixedSize ==
  lastEvent.type \in {"mousedown", "mousemove", "mouseup"}
  => /\ DOMAIN maskStates = DOMAIN prev.maskStates
     /\ \A i \in DOMAIN maskStates :
          /\ DOMAIN maskStates[i] = {"x", "y", "w", "h"}
          /\ maskStates[i].w = prev.maskStates[i].w
          /\ maskStates[i].h = prev.maskStates[i].h

\* a move has changed the x of the dragged mask
C16_Witness ==
  /\ MoveApplied
  /\ maskStates[draggingState.index].x # prev.maskStates[draggingState.index].x
  /\ maskStates[draggingState.index].w = LayoutRect(draggingState.index).w

\* C17: at most one animation frame is requested at any time, and its id is
\* the one in animationFrameRef.
C17_OneFrameChain ==
  /\ Cardinality(frames) <= 1
  /\ \A f \in frames : f.id = animationFrameRef

\* C18: a mask shows the cursor 'grabbing' if and only if it is the active
\* drag index.
C18_GrabbingIffDragged ==
  \A i \in Masks : (cursor[i] = "grabbing") <=> (draggingState.index = i)

\* the masks an animation frame f can draw: it has a MaskState for them and
\* their canvas gives a 2D context
Drawable(f) == (DOMAIN f.ms) \ lost

RLe(a, b) == ~RGt(a, b)

\* C14: drawClipped realises a cover fit: the fitted size keeps the aspect of
\* the video (dw/dh = W/H), covers the viewport (dw >= vw, dh >= vh) and
\* equals it on an axis, is centred (dx = (vw - dw)/2, dy = (vh - dh)/2), the
\* scale is the same on both axes (W/dw = H/dh = s), the source rectangle is
\* ((x - dx)s, (y - dy)s, ws, hs) and the destination rectangle (0, 0, w, h);
\* the 1920x1080 video in the 1280x720 viewport with the mask
\* (100,100,200,100) gives the source rectangle (150,150,300,150).
C14_CoverFit ==
  geom # NoCall /\ geom.drawImage # << >> =>
    LET W == RInt(geom.video.videoWidth)
        H == RInt(geom.video.videoHeight)
        vw == RInt(geom.win.innerWidth)
        vh == RInt(geom.win.innerHeight)
        x == RPx(geom.rect.x)
        y == RPx(geom.rect.y)
        w == RPx(geom.rect.w)
        h == RPx(geom.rect.h)
        fit == geom.fit
        s == RDiv(W, fit.dw)
    IN  /\ RDiv(fit.dw, fit.dh) = RDiv(W, H)
        /\ RLe(vw, fit.dw) /\ RLe(vh, fit.dh)
        /\ fit.dw = vw \/ fit.dh = vh
        /\ fit.dx = RDiv(RSub(vw, fit.dw), RInt(2))
        /\ fit.dy = RDiv(RSub(vh, fit.dh), RInt(2))
        /\ fit.scaleX = s /\ fit.scaleY = s /\ RDiv(H, fit.dh) = s
        /\ geom.drawImage =
             << RMul(RSub(x, fit.dx), s), RMul(RSub(y, fit.dy), s),
                RMul(w, s), RMul(h, s), RInt(0), RInt(0), w, h >>
        /\ geom = [FullHDCall EXCEPT !.fit = geom.fit, !.drawImage = geom.drawImage]
             => geom.drawImage =
                  << RInt(150), RInt(150), RInt(300), RInt(150),
                     RInt(0), RInt(0), RInt(200), RInt(100) >>

\* drawClipped has run for the 1920x1080 video in the 1280x720 viewport
C14_Witness ==
  /\ geom # NoCall
  /\ geom.drawImage # << >>
  /\ geom.video = FullHDCall.video /\ geom.win = FullHDCall.win
  /\ geom.rect = FullHDCall.rect

\* the mask rectangle of the call lies wholly inside the viewport
MaskInsideViewport ==
  /\ 0 <= geom.rect.x /\ geom.rect.x + geom.rect.w <= Px(geom.win.innerWidth)
  /\ 0 <= geom.rect.y /\ geom.rect.y + geom.rect.h <= Px(geom.win.innerHeight)

C11_NoCoordinatesWhileHovering ==
  /\ hud.event = "mouseenter" => hud.text = << "GRAB" >>
  /\ hud.event = "mouseleave" => hud.text = << "HOVER" >>
  /\ (hud.event = "mousemove" /\ hud.found) => hud.text = << "GRAB" >>

====
